---- MODULE Spec2Model ----
(***************************************************************************)
(* A model of metro/map.py: build_metro_network, get_paths,                *)
(* path_to_straightshots and path_travel_times.                            *)
(*                                                                         *)
(* Spec      the topology pipeline: the database tables are read, the two  *)
(*           graphs are built, a path is enumerated and segmented, one     *)
(*           recursive call of path_to_straightshots per step.             *)
(* SpecMemo  path_to_straightshots called again and again on the paths of  *)
(*           one get_paths result, its lru_cache kept between the calls.   *)
(* SpecStations  build_metro_network over a station_information that may  *)
(*           lack rows, then one call of get_paths with codes and names.   *)
(* SpecTrip  path_travel_times on a leg list, one leg of the loop per      *)
(*           step, each hop table read from the historical source when     *)
(*           get_travel_times is called.                                   *)
(***************************************************************************)
EXTENDS Integers, Sequences, FiniteSets, TLC

VARIABLES
    standard_routes,  \* table standard_routes: (linecode, tracknum) -> stations by seqnum
    station_information, \* rows of SQL['station_names']: stationcode, name, lat, lon
    transfers,        \* rows of SQL['transfers']: <<code1, code2>>
    g,                \* the undirected graph of build_metro_network
    gDi,              \* the directed multigraph of build_metro_network
    gDiNode,          \* gDi.node: the attribute dict of each node of gDi
    query,            \* the arguments <<s0, s1>> of the last call of get_paths
    paths,            \* the list the last call of get_paths returned, as a set
    cache,            \* lru_cache of path_to_straightshots: entries key, value
    pc,               \* position of the pipeline
    path,             \* the path handed to path_to_straightshots
    remainingPath,    \* the path argument of the current recursive call
    legs,             \* legs emitted by the calls on the stack, outermost first
    straightshots,    \* the value returned by the outermost call, NoResult before
    err,              \* the exception that ended the pipeline, NoError before
    i,                \* path_travel_times: the loop index of the next leg
    dfTrip,           \* path_travel_times: the in-flight trip records
    dfLeg,            \* path_travel_times: the hop table get_travel_times returned last
    ptts              \* path_travel_times: the list it returns

stationVars == <<station_information, gDiNode, query, paths>>

topologyVars == <<standard_routes, transfers, g, gDi, path, remainingPath, legs,
                  stationVars, cache>>

tripVars == <<i, dfTrip, dfLeg, ptts>>

vars == <<standard_routes, transfers, g, gDi, pc, path, remainingPath, legs,
          straightshots, err, i, dfTrip, dfLeg, ptts, stationVars, cache>>

----------------------------------------------------------------------------
(* Bounds of the model *)

NStations == 4
MaxRouteLen == 3
MaxLegs == 3
MaxSeeds == 2
MaxRows == 2

Stations == 1 .. NStations

----------------------------------------------------------------------------
(* Values *)

Null == 0                   \* SQL NULL / Python None in a station or direction column
NoLine == "none"            \* a transfer edge has no linecode attribute
NoResult == <<"no result">>
NoError == [kind |-> "none", station |-> Null, path |-> <<>>]
NaT == -1                   \* a missing timestamp (None, NaN, NaT)
NoAttrs == [name |-> Null, latlon |-> <<>>]  \* the attribute dict of a fresh node
NoPaths == {<<"no call">>}  \* get_paths has not returned

\* one day, in the time unit of the model
Day == 2

\* TRANSFER_TIME, in the time unit of the model
TransferTime == 1

\* the timestamps of the historical source: a day and the time around it
Times == 0 .. (Day + 1)

Range(s) == {s[k] : k \in 1 .. Len(s)}

IsSimple(s) == \A j, k \in 1 .. Len(s) : j # k => s[j] # s[k]

\* path.index(s)
Index(p, s) == CHOOSE k \in 1 .. Len(p) : p[k] = s /\ \A j \in 1 .. (k - 1) : p[j] # s

----------------------------------------------------------------------------
(* The topology source: the tables the three queries of build_metro_network read *)

Run(first, n) == [k \in 1 .. n |-> first + k - 1]
Reverse(s) == [k \in 1 .. Len(s) |-> s[Len(s) + 1 - k]]

AscendingRuns ==
    {Run(q[1], q[2]) : q \in {r \in Stations \X (2 .. MaxRouteLen) : r[1] + r[2] - 1 <= NStations}}

AllRuns == AscendingRuns \cup {Reverse(s) : s \in AscendingRuns}

ShortRuns == {s \in AscendingRuns : Len(s) = 2}

LineCodeValues == {"RD", "YL", "YLRP"}

RouteSlots == {<<"RD", 1>>, <<"RD", 2>>, <<"YL", 1>>, <<"YLRP", 1>>}

\* the station sequences a (linecode, tracknum) of standard_routes may hold
RouteChoices(slot) ==
    IF slot \in {<<"RD", 1>>, <<"YL", 1>>}
    THEN AllRuns \cup {<<>>}
    ELSE ShortRuns \cup {<<>>}

TransferChoices == SUBSET {<<2, 3>>, <<3, 2>>}

\* column name of station_information, a number apart from every station
\* code: the two platforms of the transfer station, 2 and 3, share one name
StationName(code) == 100 + (IF code = 3 THEN 2 ELSE code)

\* a name no row of station_information holds
Nowhere == 100

\* the rows SQL['station_names'] returns for the station codes S
StationRows(S) ==
    {[stationcode |-> c, name |-> StationName(c), lat |-> c, lon |-> 0 - c] : c \in S}

\* the tables station_information may be: a row for every station code, or
\* for all but one
StationTables == {StationRows(Stations \ X) : X \in {{}} \cup {{c} : c \in Stations}}

\* SQL['neighboring_stations']: LAG and LEAD of stationcode over
\* (PARTITION BY linecode, tracknum ORDER BY seqnum)
NeighboringStations(routes) ==
    UNION {
        {[linecode |-> slot[1], tracknum |-> slot[2], seqnum |-> k,
          prev_stationcode |-> IF k = 1 THEN Null ELSE routes[slot][k - 1],
          stationcode |-> routes[slot][k],
          next_stationcode |->
              IF k = Len(routes[slot]) THEN Null ELSE routes[slot][k + 1]]
            : k \in 1 .. Len(routes[slot])}
        : slot \in RouteSlots}

----------------------------------------------------------------------------
(* build_metro_network *)

\* nx.from_pandas_dataframe(dfNeighbors[next_stationcode.notnull()]) and
\* g.add_edges_from(gt.edges(data=True)): an nx.Graph keeps one edge per
\* unordered pair; station_transfer is the set of pairs carrying the flag
UndirectedGraph(dfNeighbors, dfTransfers) ==
    LET routeEdges == {{r.stationcode, r.next_stationcode} :
                          r \in {x \in dfNeighbors : x.next_stationcode # Null}}
        gt == {{t[1], t[2]} : t \in dfTransfers}
    IN  [nodes |-> UNION (routeEdges \cup gt),
         edges |-> routeEdges \cup gt,
         station_transfer |-> gt,
         node |-> [n \in UNION (routeEdges \cup gt) |-> NoAttrs]]

\* pd.melt(...).drop_duplicates().replace(...): prev_stationcode is direction
\* 2, next_stationcode is direction 1
MeltEdges(dfNeighbors) ==
    {[linecode |-> r.linecode, stationcode |-> r.stationcode,
      directionnum |-> 2, dst_stationcode |-> r.prev_stationcode] : r \in dfNeighbors}
    \cup
    {[linecode |-> r.linecode, stationcode |-> r.stationcode,
      directionnum |-> 1, dst_stationcode |-> r.next_stationcode] : r \in dfNeighbors}

\* gtDi: one directed edge code1 -> code2 per row of dfTransfers
TransferDiEdges(dfTransfers) ==
    {[src |-> t[1], dst |-> t[2], linecode |-> NoLine, directionnum |-> Null,
      station_transfer |-> TRUE] : t \in dfTransfers}

\* gDi: the edges of the MultiDiGraph, each with its attributes
DirectedGraph(dfNeighbors, dfTransfers) ==
    {[src |-> e.stationcode, dst |-> e.dst_stationcode, linecode |-> e.linecode,
      directionnum |-> e.directionnum, station_transfer |-> FALSE]
        : e \in {x \in MeltEdges(dfNeighbors) : x.dst_stationcode # Null}}
    \cup TransferDiEdges(dfTransfers)

EmptyGraph == [nodes |-> {}, edges |-> {}, station_transfer |-> {}, node |-> <<>>]

\* the nodes of a MultiDiGraph given as its edges
NodesOf(edges) == {e.src : e \in edges} \cup {e.dst : e \in edges}

\* the loop over dfNames.iterrows(): the node dict after the rows of dfNames
\* have written name and latlon; a node no row names keeps its fresh dict
Decorate(nodes, dfNames) ==
    [n \in nodes |->
        IF \E row \in dfNames : row.stationcode = n
        THEN LET row == CHOOSE r \in dfNames : r.stationcode = n
             IN  [name |-> row.name, latlon |-> <<row.lon, row.lat>>]
        ELSE NoAttrs]

\* the whole of build_metro_network: g.node[row.stationcode] of a row whose
\* station is no node of the graph raises KeyError and nothing is returned;
\* otherwise the graphs are returned as line 240 returns them
BuildMetroNetwork ==
    /\ pc = "start"
    /\ LET dfNeighbors == NeighboringStations(standard_routes)
           dfNames == station_information
           gNew == UndirectedGraph(dfNeighbors, transfers)
           gDiNew == DirectedGraph(dfNeighbors, transfers)
           unknown == {row \in dfNames : row.stationcode \notin gNew.nodes}
       IN  IF unknown # {}
           THEN /\ \E row \in unknown :
                     err' = [kind |-> "KeyError", station |-> row.stationcode,
                             path |-> <<>>]
                /\ pc' = "error"
                /\ UNCHANGED <<g, gDi, gDiNode>>
           ELSE /\ g' = [gNew EXCEPT !.node = Decorate(gNew.nodes, dfNames)]
                /\ gDi' = gDiNew
                /\ gDiNode' = Decorate(NodesOf(gDiNew), dfNames)
                /\ pc' = "built"
                /\ UNCHANGED err
    /\ UNCHANGED <<standard_routes, transfers, station_information, path,
                   remainingPath, legs, straightshots, query, paths, cache>>
    /\ UNCHANGED tripVars

----------------------------------------------------------------------------
(* get_paths *)

\* the simple paths that extend a path of P by one neighbour not yet visited
ExtendPaths(graph, P) ==
    UNION {{Append(p, v) : v \in {n \in graph.nodes \ Range(p) :
                                    {p[Len(p)], n} \in graph.edges}} : p \in P}

RECURSIVE SimplePathsFrom(_, _, _)
\* the simple paths that extend a path of P by at most n stations
SimplePathsFrom(graph, P, n) ==
    IF n = 0 \/ P = {} THEN P
    ELSE P \cup SimplePathsFrom(graph, ExtendPaths(graph, P), n - 1)

\* nx.all_simple_paths(g, s0now, s1now)
AllSimplePaths(graph, s0now, s1now) ==
    {p \in SimplePathsFrom(graph, {<<s0now>>}, NStations - 1) :
        Len(p) >= 2 /\ p[Len(p)] = s1now}

\* get_station_codes: the query itself when it is a node, else the nodes
\* whose name attribute is the query
GetStationCodes(graph, s) ==
    IF s \in graph.nodes
    THEN {s}
    ELSE {n \in graph.nodes : graph.node[n].name = s}

GetPathsOf(graph, s0, s1) ==
    UNION {AllSimplePaths(graph, s0now, s1now) :
              <<s0now, s1now>> \in GetStationCodes(graph, s0) \X GetStationCodes(graph, s1)}

\* main: for path in get_paths(g, s0, s1)
GetPaths ==
    /\ pc = "built"
    /\ \E s0 \in Stations, s1 \in Stations :
         \E p \in GetPathsOf(g, s0, s1) :
            /\ path' = p
            /\ remainingPath' = p
    /\ legs' = <<>>
    /\ pc' = "segment"
    /\ UNCHANGED <<standard_routes, transfers, g, gDi, straightshots, err, cache>>
    /\ UNCHANGED stationVars
    /\ UNCHANGED tripVars

\* what a caller may pass as s0 or s1: a station code, a station name, or
\* a string that is neither
Queries == Stations \cup {StationName(c) : c \in Stations} \cup {Nowhere}

\* one call of get_paths(g, s0, s1), the returned list kept
GetPathsResult ==
    /\ pc = "built"
    /\ \E s0 \in Queries, s1 \in Queries :
         /\ query' = <<s0, s1>>
         /\ paths' = GetPathsOf(g, s0, s1)
    /\ pc' = "paths"
    /\ UNCHANGED <<standard_routes, transfers, station_information, g, gDi, gDiNode,
                   path, remainingPath, legs, straightshots, err, cache>>
    /\ UNCHANGED tripVars

----------------------------------------------------------------------------
(* path_to_straightshots *)

\* gDi.subgraph(path)
Subgraph(graph, p) == {e \in graph : e.src \in Range(p) /\ e.dst \in Range(p)}

\* sub[a][b].values()
HopEdges(sub, a, b) == {e \in sub : e.src = a /\ e.dst = b}

\* {e['linecode'] for e in edges} with YLRP discarded
LineCodes(edges) == {e.linecode : e \in edges} \ {"YLRP"}

\* {e['directionnum'] for e in edges}
DirectionNums(edges) == {e.directionnum : e \in edges}

\* the dict reachable, then the set of its keys that every linecode reaches
Reachable(sub, directionnum, linecodes) ==
    LET tagged == {e \in sub : e.directionnum = directionnum /\ e.linecode # "YLRP"}
        codesInto(k) == {e.linecode : e \in {x \in tagged : x.dst = k}}
    IN  {k \in {e.dst : e \in tagged} : linecodes \subseteq codesInto(k)}

\* max(reachable, key=lambda s: path.index(s))
Furthest(reachable, p) ==
    CHOOSE s \in reachable : \A t \in reachable : Index(p, t) <= Index(p, s)

\* the slice taken one station too late
RemainingPathAfter(p, furthest) == SubSeq(p, Index(p, furthest) + 1, Len(p))

\* path[path.index(furthest):]
RemainingPathFrom(p, furthest) == SubSeq(p, Index(p, furthest), Len(p))

\* the base case taken one station too early
IsBaseCaseAtTwo(p) == Len(p) <= 2 /\ Len(p) >= 1

\* len(path) == 1
IsBaseCase(p) == Len(p) = 1

\* the direction check left out
NeverAmbiguous(edges) == FALSE

\* len(directionnum) > 1
AmbiguousDirection(edges) == Cardinality(DirectionNums(edges)) > 1

Leg(a, furthest, directionnum, isTrans) ==
    [departure_station |-> a, arrival_station |-> furthest,
     directionnum |-> directionnum, station_transfer |-> isTrans]

\* stands for sys.getrecursionlimit(): deeper than any simple path
RecursionLimit == NStations + 1

\* a key that keeps only the two ends of the path
CacheKeyByEnds(p) == <<p[1], p[Len(p)]>>

\* the key lru_cache files a call under: gDi is one object throughout, so
\* the key is the value of the tuple path
CacheKey(p) == p

\* the cached return value of a call on p; asked only when there is one
Cached(p) == (CHOOSE c \in cache : c.key = CacheKey(p)).value

IsCached(p) == \E c \in cache : c.key = CacheKey(p)

\* [[leg] + restOfPath for restOfPath in ...] over the legs of a stack
PrependLegs(stack, value) == [k \in 1 .. Len(value) |-> stack \o value[k]]

\* the path argument of the call that emitted legs[k]: the suffix of path
\* that starts at the leg's departure station
FramePath(k) == SubSeq(path, Index(path, legs[k].departure_station), Len(path))

\* the cache after the innermost call returned value and every call on the
\* stack returned in turn; a key already filed keeps its entry
Returned(value) ==
    LET fresh == {[key |-> CacheKey(remainingPath), value |-> value]} \cup
                 {[key |-> CacheKey(FramePath(k)),
                   value |-> PrependLegs(SubSeq(legs, k, Len(legs)), value)]
                     : k \in 1 .. Len(legs)}
    IN  cache \cup {c \in fresh : \A d \in cache : d.key # c.key}

\* an exception unwinds the stack: lru_cache files nothing
Raise(e) ==
    /\ pc' = "error"
    /\ err' = e
    /\ UNCHANGED <<remainingPath, legs, straightshots, cache>>

\* the recursive call on remainingPath, the leg just emitted kept on the stack
Recurse(leg, furthest) ==
    IF Len(legs) >= RecursionLimit
    THEN Raise([kind |-> "RecursionError", station |-> Null, path |-> <<>>])
    ELSE /\ remainingPath' = RemainingPathFrom(remainingPath, furthest)
         /\ legs' = Append(legs, leg)
         /\ UNCHANGED <<pc, straightshots, err, cache>>

\* one call of path_to_straightshots(gDi, remainingPath) through its cache
PathToStraightshots ==
    /\ pc = "segment"
    /\ UNCHANGED <<standard_routes, transfers, g, gDi, path>>
    /\ UNCHANGED stationVars
    /\ UNCHANGED tripVars
    /\ IF IsCached(remainingPath)
       THEN \* the wrapper returns the filed value without calling the function
            /\ straightshots' = PrependLegs(legs, Cached(remainingPath))
            /\ cache' = Returned(Cached(remainingPath))
            /\ pc' = "done"
            /\ UNCHANGED <<remainingPath, legs, err>>
       ELSE IF IsBaseCase(remainingPath)
       THEN \* the base case returns [[]]: every leg on the stack is prepended
            /\ straightshots' = PrependLegs(legs, << <<>> >>)
            /\ cache' = Returned(<< <<>> >>)
            /\ pc' = "done"
            /\ UNCHANGED <<remainingPath, legs, err>>
       ELSE IF Len(remainingPath) = 0
       THEN \* a, b = path[:2] has nothing to unpack
            Raise([kind |-> "ValueError: unpack", station |-> Null, path |-> <<>>])
       ELSE
         LET sub == Subgraph(gDi, remainingPath)
             a == remainingPath[1]
             b == remainingPath[2]
             edges == HopEdges(sub, a, b)
         IN  IF edges = {}
             THEN \* sub[a][b] of a hop with no directed edge
                  Raise([kind |-> "KeyError", station |-> b, path |-> <<>>])
             ELSE IF \E e \in edges : e.station_transfer
             THEN Recurse(Leg(a, b, Null, TRUE), b)
             ELSE IF AmbiguousDirection(edges)
             THEN Raise([kind |-> "ValueError: more than one direction",
                         station |-> a, path |-> remainingPath])
             ELSE
               LET directionnum == CHOOSE d \in DirectionNums(edges) : TRUE
                   reachable == Reachable(sub, directionnum, LineCodes(edges))
               IN  IF reachable = {}
                   THEN \* max() of an empty set
                        Raise([kind |-> "ValueError: max of empty", station |-> Null,
                               path |-> <<>>])
                   ELSE Recurse(Leg(a, Furthest(reachable, remainingPath),
                                    directionnum, FALSE),
                                Furthest(reachable, remainingPath))

----------------------------------------------------------------------------
(* The topology pipeline *)

Init ==
    /\ standard_routes \in {r \in [RouteSlots -> AllRuns \cup {<<>>}] :
                               \A slot \in RouteSlots : r[slot] \in RouteChoices(slot)}
    /\ transfers \in TransferChoices
    /\ station_information =
           StationRows(UndirectedGraph(NeighboringStations(standard_routes),
                                       transfers).nodes)
    /\ g = EmptyGraph
    /\ gDi = {}
    /\ gDiNode = <<>>
    /\ query = <<>>
    /\ paths = NoPaths
    /\ cache = {}
    /\ pc = "start"
    /\ path = <<>>
    /\ remainingPath = <<>>
    /\ legs = <<>>
    /\ straightshots = NoResult
    /\ err = NoError
    /\ i = 0
    /\ dfTrip = <<>>
    /\ dfLeg = <<>>
    /\ ptts = <<>>

Next ==
    \/ BuildMetroNetwork
    \/ GetPaths
    \/ PathToStraightshots

Spec == Init /\ [][Next]_vars

----------------------------------------------------------------------------
(* The call pipeline: path_to_straightshots is called on the paths of one   *)
(* get_paths result, one after another and in any order, its cache kept     *)

\* a line that closes a ring: it runs from station 3 back to station 1
LoopRun == <<3, 1>>

\* the station sequences of standard_routes in the call pipeline
MemoRouteChoices(slot) ==
    CASE slot = <<"RD", 1>> -> AscendingRuns \cup {<<>>}
      [] slot = <<"RD", 2>> -> {<<>>}
      [] slot = <<"YL", 1>> -> {LoopRun, <<>>}
      [] slot = <<"YLRP", 1>> -> ShortRuns \cup {<<>>}

\* the next call of path_to_straightshots by a caller that goes through the
\* paths get_paths returned, whether the call before returned or raised
ForPath ==
    /\ pc \in {"paths", "done", "error"}
    /\ paths # NoPaths
    /\ \E p \in paths :
         /\ path' = p
         /\ remainingPath' = p
    /\ legs' = <<>>
    /\ straightshots' = NoResult
    /\ err' = NoError
    /\ pc' = "segment"
    /\ UNCHANGED <<standard_routes, transfers, g, gDi, cache>>
    /\ UNCHANGED stationVars
    /\ UNCHANGED tripVars

InitMemo ==
    /\ standard_routes \in {r \in [RouteSlots -> AllRuns \cup {LoopRun, <<>>}] :
                               \A slot \in RouteSlots : r[slot] \in MemoRouteChoices(slot)}
    /\ transfers \in TransferChoices
    /\ station_information =
           StationRows(UndirectedGraph(NeighboringStations(standard_routes),
                                       transfers).nodes)
    /\ g = EmptyGraph
    /\ gDi = {}
    /\ gDiNode = <<>>
    /\ query = <<>>
    /\ paths = NoPaths
    /\ cache = {}
    /\ pc = "start"
    /\ path = <<>>
    /\ remainingPath = <<>>
    /\ legs = <<>>
    /\ straightshots = NoResult
    /\ err = NoError
    /\ i = 0
    /\ dfTrip = <<>>
    /\ dfLeg = <<>>
    /\ ptts = <<>>

NextMemo ==
    \/ BuildMetroNetwork
    \/ GetPathsResult
    \/ ForPath
    \/ PathToStraightshots

SpecMemo == InitMemo /\ [][NextMemo]_vars

----------------------------------------------------------------------------
(* The station pipeline: the network is built from a station_information    *)
(* that may lack a row, and get_paths is called with codes and names        *)

\* SQL['transfers'] reads station_information, so code1 of a row has a row
InitStations ==
    /\ standard_routes \in {r \in [RouteSlots -> AllRuns \cup {<<>>}] :
                               /\ \A slot \in RouteSlots : r[slot] \in RouteChoices(slot)
                               /\ r[<<"YL", 1>>] = <<>>
                               /\ r[<<"YLRP", 1>>] = <<>>}
    /\ transfers \in TransferChoices
    /\ station_information \in
           {T \in StationTables :
               \A t \in transfers : \E row \in T : row.stationcode = t[1]}
    /\ g = EmptyGraph
    /\ gDi = {}
    /\ gDiNode = <<>>
    /\ query = <<>>
    /\ paths = NoPaths
    /\ cache = {}
    /\ pc = "start"
    /\ path = <<>>
    /\ remainingPath = <<>>
    /\ legs = <<>>
    /\ straightshots = NoResult
    /\ err = NoError
    /\ i = 0
    /\ dfTrip = <<>>
    /\ dfLeg = <<>>
    /\ ptts = <<>>

NextStations ==
    \/ BuildMetroNetwork
    \/ GetPathsResult

SpecStations == InitStations /\ [][NextStations]_vars

----------------------------------------------------------------------------
(* get_travel_times *)

\* the rows of the window of SQL['transit_time'] for one hop: a departure
\* event and the next event of the same vehicle, an arrival; ORDER BY
\* timestamp puts next_timestamp after timestamp. The observed hops take
\* from one time unit up to a day
HopRows ==
    {r \in [dep : Times, arr : Times] : r.dep < r.arr /\ r.arr - r.dep <= Day}

\* the windowed rows of one hop, at most n of them
HopObservations(n) == UNION {[1 .. m -> HopRows] : m \in 0 .. n}

\* the filter dropped: every windowed row is kept
TransitTimeUnfiltered(observed) == observed

\* SQL['transit_time']: WHERE ... AND delta < '1 day'
TransitTime(observed) ==
    LET WithinDay(r) == r.arr - r.dep < Day
    IN  SelectSeq(observed, WithinDay)

----------------------------------------------------------------------------
(* path_travel_times *)

\* the leg lists path_to_straightshots hands over: leg k rides or transfers
\* from station k to station k + 1
LegList(isTran) ==
    [k \in 1 .. Len(isTran) |->
        Leg(k, k + 1, IF isTran[k] THEN Null ELSE 1, isTran[k])]

LegLists == {LegList(f) : f \in UNION {[1 .. n -> BOOLEAN] : n \in 1 .. MaxLegs}}

\* pd.Series(None, index=dfLeg.columns[1:])
NoConnection == [dep |-> NaT, arr |-> NaT]

\* the rows of dfLeg[dfLeg[sNowDep] >= record[sNowArr]]
Connections(record, n, legRows) ==
    IF record.arr[n] = NaT THEN {}
    ELSE {k \in 1 .. Len(legRows) : legRows[k].dep >= record.arr[n]}

\* idxmin(): the first row holding the least departure
IdxMin(legRows, rows) ==
    CHOOSE k \in rows :
        /\ \A j \in rows : legRows[k].dep <= legRows[j].dep
        /\ \A j \in rows : legRows[j].dep = legRows[k].dep => k <= j

\* the comparison made strict
FindLaterConnection(record, n, legRows) ==
    LET rows == {k \in 1 .. Len(legRows) :
                    record.arr[n] # NaT /\ legRows[k].dep > record.arr[n]}
    IN  IF rows = {} THEN NoConnection ELSE legRows[IdxMin(legRows, rows)]

\* the comparison left out
FindAnyConnection(record, n, legRows) ==
    IF record.arr[n] = NaT \/ Len(legRows) = 0 THEN NoConnection
    ELSE legRows[IdxMin(legRows, 1 .. Len(legRows))]

\* _find_next_connection(record, i, dfLeg)
FindNextConnection(record, n, legRows) ==
    IF Connections(record, n, legRows) = {}
    THEN NoConnection
    ELSE legRows[IdxMin(legRows, Connections(record, n, legRows))]

\* a transfer leg seeds the trip like a ride leg
FirstLegMayTransfer(leg) == FALSE

\* if i == 0: if isTran: raise NotImplementedError
FirstLegIsTransfer(leg) == leg.station_transfer

\* NaT + TRANSFER_TIME is NaT
AddTime(t, d) == IF t = NaT THEN NaT ELSE t + d

\* arr - dep of two timestamp columns
TimeDelta(arr, dep) == IF arr = NaT \/ dep = NaT THEN NaT ELSE arr - dep

\* the leg the loop is about to process
CurrentLeg == straightshots[1][i + 1]

TripUnchanged == UNCHANGED <<straightshots, topologyVars>>

\* i == 0: the trip records are seeded from the hop table of the first leg
FirstLeg ==
    /\ pc = "trip"
    /\ i = 0
    /\ i < Len(straightshots[1])
    /\ TripUnchanged
    /\ IF FirstLegIsTransfer(CurrentLeg)
       THEN /\ pc' = "error"
            /\ err' = [kind |-> "NotImplementedError", station |-> Null, path |-> <<>>]
            /\ UNCHANGED <<i, dfTrip, dfLeg, ptts>>
       ELSE \E observed \in HopObservations(MaxSeeds) :
              LET seeds == TransitTime(observed)
              IN  /\ dfLeg' = seeds
                  /\ dfTrip' = [k \in 1 .. Len(seeds) |->
                                   [dep |-> <<seeds[k].dep>>, arr |-> <<seeds[k].arr>>]]
                  /\ i' = 1
                  /\ UNCHANGED <<pc, err, ptts>>

\* i > 0, a transfer leg: leave on arrival, arrive TRANSFER_TIME later
TransferLeg ==
    /\ pc = "trip"
    /\ i > 0
    /\ i < Len(straightshots[1])
    /\ CurrentLeg.station_transfer
    /\ TripUnchanged
    /\ dfTrip' = [k \in 1 .. Len(dfTrip) |->
                     [dep |-> Append(dfTrip[k].dep, dfTrip[k].arr[i]),
                      arr |-> Append(dfTrip[k].arr,
                                     AddTime(dfTrip[k].arr[i], TransferTime))]]
    /\ i' = i + 1
    /\ UNCHANGED <<pc, err, dfLeg, ptts>>

\* i > 0, a ride leg: dfTrip.join(dfTrip.apply(_find_next_connection, ...))
RideLeg ==
    /\ pc = "trip"
    /\ i > 0
    /\ i < Len(straightshots[1])
    /\ ~CurrentLeg.station_transfer
    /\ TripUnchanged
    /\ \E observed \in HopObservations(MaxRows) :
         /\ dfLeg' = TransitTime(observed)
         /\ IF Len(dfTrip) = 0
            THEN \* apply on a frame without rows returns a copy of the frame,
                 \* and join refuses the overlapping columns
                 /\ pc' = "error"
                 /\ err' = [kind |-> "ValueError: columns overlap", station |-> Null,
                            path |-> <<>>]
                 /\ UNCHANGED <<i, dfTrip, ptts>>
            ELSE /\ dfTrip' = [k \in 1 .. Len(dfTrip) |->
                       LET dfNext == FindNextConnection(dfTrip[k], i, dfLeg')
                       IN  [dep |-> Append(dfTrip[k].dep, dfNext.dep),
                            arr |-> Append(dfTrip[k].arr, dfNext.arr)]]
                 /\ i' = i + 1
                 /\ UNCHANGED <<pc, err, ptts>>

\* after the loop: total_time = s{i+1}arr - s0dep, and the record list is appended
TotalTime ==
    /\ pc = "trip"
    /\ i > 0
    /\ i = Len(straightshots[1])
    /\ TripUnchanged
    /\ ptts' = Append(ptts,
          [straightshot |-> straightshots[1],
           travel_times |-> [k \in 1 .. Len(dfTrip) |->
               [dep |-> dfTrip[k].dep, arr |-> dfTrip[k].arr,
                total_time |-> TimeDelta(dfTrip[k].arr[i], dfTrip[k].dep[1])]]])
    /\ pc' = "done"
    /\ UNCHANGED <<i, dfTrip, dfLeg, err>>

InitTrip ==
    /\ standard_routes = [slot \in RouteSlots |-> <<>>]
    /\ transfers = {}
    /\ station_information = {}
    /\ g = EmptyGraph
    /\ gDi = {}
    /\ gDiNode = <<>>
    /\ query = <<>>
    /\ paths = NoPaths
    /\ cache = {}
    /\ path = <<>>
    /\ remainingPath = <<>>
    /\ legs = <<>>
    /\ straightshots \in {<<L>> : L \in LegLists}
    /\ pc = "trip"
    /\ err = NoError
    /\ i = 0
    /\ dfTrip = <<>>
    /\ dfLeg = <<>>
    /\ ptts = <<>>

NextTrip ==
    \/ FirstLeg
    \/ TransferLeg
    \/ RideLeg
    \/ TotalTime

SpecTrip == InitTrip /\ [][NextTrip]_vars

----------------------------------------------------------------------------
(* Properties of the topology pipeline *)

\* the position of station s in path p, 0 when it is not on the path
PositionIn(p, s) ==
    IF \E k \in 1 .. Len(p) : p[k] = s
    THEN CHOOSE k \in 1 .. Len(p) : p[k] = s
    ELSE 0

\* the leg list of the decomposition that was returned
ReturnedLegs == straightshots[1]

\* a leg that rides past at least one station of the path
IsMultiHop(leg) ==
    PositionIn(path, leg.arrival_station) > PositionIn(path, leg.departure_station) + 1

RECURSIVE RideClosure(_, _, _)
\* the stations reached from S in at most n edges of E
RideClosure(E, S, n) ==
    IF n = 0 THEN S
    ELSE RideClosure(E, S \cup {e.dst : e \in {x \in E : x.src \in S}}, n - 1)

\* the stations a rider reaches from a on line c in direction d, staying on
\* the stations of p
RideReachable(p, a, c, d) ==
    RideClosure({e \in gDi : /\ e.src \in Range(p)
                             /\ e.dst \in Range(p)
                             /\ e.linecode = c
                             /\ e.directionnum = d},
                {a}, NStations)

\* the path of the recursive call that emitted a leg departing from a
CallPath(a) == SubSeq(path, PositionIn(path, a), Len(path))

\* the line codes a rider can board for the first hop of p, YLRP aside
BoardableCodes(p) ==
    {e.linecode : e \in {x \in gDi : /\ x.src = p[1]
                                     /\ x.dst = p[2]
                                     /\ ~x.station_transfer}} \ {"YLRP"}

\* C1: every ride leg (a, f, directionnum) of a returned decomposition ends at
\* a station f that is reachable from a, within the stations of the call's
\* path, on every line code of the first hop in direction directionnum.
C1_RideLegReachableOnEveryLine ==
    pc = "done" =>
        \A k \in 1 .. Len(ReturnedLegs) :
            LET leg == ReturnedLegs[k]
                p == CallPath(leg.departure_station)
            IN  ~leg.station_transfer =>
                    \A c \in BoardableCodes(p) :
                        leg.arrival_station \in
                            RideReachable(p, leg.departure_station, c, leg.directionnum)

\* C2: a returned leg list of a path of length >= 2 partitions the path: it
\* starts at path[0], ends at path[-1], every leg starts where the previous
\* one ended, and every leg ends strictly later in the path than it starts.
C2_LegsPartitionPath ==
    (pc = "done" /\ Len(path) >= 2) =>
        LET L == ReturnedLegs
        IN  /\ Len(L) >= 1
            /\ L[1].departure_station = path[1]
            /\ L[Len(L)].arrival_station = path[Len(path)]
            /\ \A k \in 1 .. (Len(L) - 1) :
                   L[k].arrival_station = L[k + 1].departure_station
            /\ \A k \in 1 .. Len(L) :
                   /\ PositionIn(path, L[k].departure_station) >= 1
                   /\ PositionIn(path, L[k].arrival_station) >
                          PositionIn(path, L[k].departure_station)

\* a decomposition was returned with a multi-hop ride leg followed by another leg
C2_Witness ==
    /\ pc = "done"
    /\ Len(path) >= 4
    /\ Len(ReturnedLegs) >= 2
    /\ IsMultiHop(ReturnedLegs[1])

\* the first leg's departure station followed by every leg's arrival station
StationSequence(L) ==
    IF Len(L) = 0 THEN <<>>
    ELSE <<L[1].departure_station>> \o [k \in 1 .. Len(L) |-> L[k].arrival_station]

\* C3 as stated: the station sequence of a returned decomposition equals the path.
C3_StationSequenceIsPath ==
    pc = "done" => StationSequence(ReturnedLegs) = path

\* a station of the path that some leg rides through without stopping
RiddenThrough(L, s) ==
    \E k \in 1 .. Len(L) :
        /\ PositionIn(path, L[k].departure_station) < PositionIn(path, s)
        /\ PositionIn(path, s) < PositionIn(path, L[k].arrival_station)

\* C3 amended: the station sequence of a returned decomposition is the path
\* with the stations ridden through inside a leg left out, in path order; it
\* starts at path[0] and ends at path[-1].
C3_StationSequenceIsPathWithoutRiddenThrough ==
    pc = "done" =>
        LET L == ReturnedLegs
            Stop(s) == ~RiddenThrough(L, s)
        IN  /\ Len(L) >= 1
            /\ StationSequence(L) = SelectSeq(path, Stop)
            /\ StationSequence(L)[1] = path[1]
            /\ StationSequence(L)[Len(L) + 1] = path[Len(path)]

\* a returned decomposition whose station sequence leaves a station out
C3_Witness ==
    /\ pc = "done"
    /\ \E k \in 1 .. Len(ReturnedLegs) : IsMultiHop(ReturnedLegs[k])
    /\ Len(StationSequence(ReturnedLegs)) < Len(path)

\* the first hop of the current call has ride edges only, in both directions
FirstHopAmbiguous ==
    /\ Len(remainingPath) >= 2
    /\ LET E == {e \in gDi : e.src = remainingPath[1] /\ e.dst = remainingPath[2]}
       IN  /\ \A e \in E : ~e.station_transfer
           /\ \E e1, e2 \in E : e1.directionnum # e2.directionnum

\* C8: a call whose first hop has ride edges of more than one direction, and
\* no transfer edge, ends in an error naming the station and the path; no leg
\* is emitted for the hop and no leg list is returned.
C8_AmbiguousDirectionFails ==
    [][(pc = "segment" /\ FirstHopAmbiguous) =>
          /\ pc' = "error"
          /\ err'.kind = "ValueError: more than one direction"
          /\ err'.station = remainingPath[1]
          /\ err'.path = remainingPath
          /\ legs' = legs
          /\ straightshots' = NoResult]_vars

\* the segmentation failed on an ambiguous hop met after a first leg
C8_Witness ==
    /\ pc = "error"
    /\ FirstHopAmbiguous
    /\ err.kind = "ValueError: more than one direction"
    /\ Len(legs) >= 1
    /\ straightshots = NoResult

\* C10: once the network is built, every transfer pair of the topology
\* source has a transfer edge in both directions in the directed multigraph,
\* and every hop of an enumerated path has a directed edge in its direction.
C10_TransferEdgesBothDirections ==
    /\ pc # "start" =>
          \A t \in transfers :
              \A d \in {<<t[1], t[2]>>, <<t[2], t[1]>>} :
                  \E e \in gDi : e.src = d[1] /\ e.dst = d[2] /\ e.station_transfer
    /\ pc \in {"segment", "done", "error"} =>
          \A k \in 1 .. (Len(path) - 1) :
              \E e \in gDi : e.src = path[k] /\ e.dst = path[k + 1]

----------------------------------------------------------------------------
(* Properties of path_travel_times *)

\* the trip records of the list path_travel_times returned
ReturnedTrips == ptts[1].travel_times

\* the leg list path_travel_times works on
TripLegs == straightshots[1]

Present(t) == t # NaT

\* the last ride leg among the legs processed so far, 0 when there is none:
\* the leg dfLeg was read for
LastRideLeg ==
    LET rides == {k \in 1 .. i : ~TripLegs[k].station_transfer}
    IN  IF rides = {} THEN 0 ELSE CHOOSE k \in rides : \A j \in rides : j <= k

\* C4: in every returned trip record the timestamps respect causality: no
\* leg arrives before it departs, the departure from a connecting station is
\* at or after the arrival there, and the arrivals at successive stations do
\* not decrease, over ride legs and transfer legs alike.
C4_TimestampsRespectCausality ==
    pc = "done" =>
        \A n \in 1 .. Len(ReturnedTrips) :
            LET r == ReturnedTrips[n]
            IN  \A k \in 1 .. Len(r.arr) :
                    /\ (Present(r.dep[k]) /\ Present(r.arr[k])) => r.dep[k] <= r.arr[k]
                    /\ (k > 1 /\ Present(r.dep[k]) /\ Present(r.arr[k - 1]))
                           => r.arr[k - 1] <= r.dep[k]
                    /\ (k > 1 /\ Present(r.arr[k]) /\ Present(r.arr[k - 1]))
                           => r.arr[k - 1] <= r.arr[k]

\* a returned three-leg trip with a wait at a connection and a transfer whose
\* hop table also held a vehicle that left before the rider arrived
C4_Witness ==
    /\ pc = "done"
    /\ Len(TripLegs) = 3
    /\ \E k \in 1 .. 3 : TripLegs[k].station_transfer
    /\ \E n \in 1 .. Len(ReturnedTrips) :
          LET r == ReturnedTrips[n]
          IN  /\ \A k \in 1 .. 3 : Present(r.dep[k]) /\ Present(r.arr[k])
              /\ \E k \in 2 .. 3 : r.dep[k] > r.arr[k - 1]
              /\ \E m \in 1 .. Len(dfLeg) : dfLeg[m].dep < r.arr[LastRideLeg - 1]

\* C5: the connection joined to a trip record for a ride leg after the first
\* is the entry of the hop table with the least departure among those that
\* depart at or after the record's arrival, an entry departing exactly at the
\* arrival included; the vehicle pair (0 -> 1), (1 -> 2) over two ride legs
\* gives the single trip record of total time 2.
C5_EarliestFeasibleConnection ==
    /\ (pc \in {"trip", "done"} /\ LastRideLeg >= 2) =>
          \A n \in 1 .. Len(dfTrip) :
              LET r == dfTrip[n]
                  j == LastRideLeg
                  feasible == {k \in 1 .. Len(dfLeg) :
                                  Present(r.arr[j - 1]) /\ dfLeg[k].dep >= r.arr[j - 1]}
              IN  feasible # {} =>
                      /\ \A k \in feasible : r.dep[j] <= dfLeg[k].dep
                      /\ \E k \in feasible :
                             dfLeg[k].dep = r.dep[j] /\ dfLeg[k].arr = r.arr[j]
    /\ ( /\ pc = "done"
         /\ Len(TripLegs) = 2
         /\ \A k \in 1 .. 2 : ~TripLegs[k].station_transfer
         /\ Len(dfTrip) = 1
         /\ dfTrip[1].dep[1] = 0
         /\ dfTrip[1].arr[1] = 1
         /\ dfLeg = <<[dep |-> 1, arr |-> 2]>> ) =>
          ReturnedTrips = <<[dep |-> <<0, 1>>, arr |-> <<1, 2>>, total_time |-> 2]>>

\* a trip record met a hop table with an entry leaving exactly on its
\* arrival, a later entry and an earlier one, and its total time was taken
C5_Witness ==
    /\ pc = "done"
    /\ LastRideLeg = 2
    /\ Len(dfLeg) = 2
    /\ \E n \in 1 .. Len(ReturnedTrips) :
          LET r == ReturnedTrips[n]
          IN  /\ r.dep[2] = r.arr[1]
              /\ \E k \in 1 .. Len(dfLeg) : dfLeg[k].dep > r.arr[1]
              /\ r.total_time = r.arr[Len(r.arr)] - r.dep[1]
    /\ \E n \in 1 .. Len(ReturnedTrips) :
          \E k \in 1 .. Len(dfLeg) : dfLeg[k].dep < ReturnedTrips[n].arr[1]

\* C6: a trip record that finds no entry of a ride leg departing at or after
\* its arrival is dropped, so no returned trip record lacks a connection.
C6_MissedConnectionDropped ==
    pc = "done" =>
        \A n \in 1 .. Len(ReturnedTrips) :
            \A k \in 1 .. Len(ReturnedTrips[n].arr) :
                Present(ReturnedTrips[n].dep[k]) /\ Present(ReturnedTrips[n].arr[k])

\* C7: no returned trip record has a total time greater than one day.
C7_TotalTimeWithinDay ==
    pc = "done" =>
        \A n \in 1 .. Len(ReturnedTrips) :
            Present(ReturnedTrips[n].total_time) => ReturnedTrips[n].total_time <= Day

\* C9: a leg list whose first leg is a transfer leg is rejected: the call
\* ends in NotImplementedError, no trip record is seeded and nothing is returned.
C9_FirstLegTransferRejected ==
    TripLegs[1].station_transfer =>
        /\ pc \in {"trip", "error"}
        /\ pc = "error" => err.kind = "NotImplementedError"
        /\ i = 0
        /\ dfTrip = <<>>
        /\ dfLeg = <<>>
        /\ ptts = <<>>

\* a leg list of several legs that starts with a transfer was rejected
C9_Witness ==
    /\ TripLegs[1].station_transfer
    /\ Len(TripLegs) >= 2
    /\ pc = "error"
    /\ err.kind = "NotImplementedError"
    /\ ptts = <<>>

----------------------------------------------------------------------------
(* Properties of the station pipeline *)

\* the station codes the rows of standard_routes and of SQL['transfers'] name
ReferencedStations ==
    UNION {Range(standard_routes[slot]) : slot \in RouteSlots}
    \cup {t[1] : t \in transfers} \cup {t[2] : t \in transfers}

\* the station codes station_information has a row for
NamedStations == {row.stationcode : row \in station_information}

\* build_metro_network has returned its two graphs
BuildReturned == pc \in {"built", "paths"}

\* the attribute dict holds a name and a (lon, lat)
IsDecorated(attrs) == attrs.name # Null /\ Len(attrs.latlon) = 2

\* C11: build_metro_network either fails or returns graphs in which every
\* node of both graphs carries a name and a (lon, lat): once the build is
\* over, a station code that a route or transfer row references and that has
\* no row of station_information means the build has failed.
C11_BuildFailsOrDecoratesEveryNode ==
    /\ BuildReturned =>
          /\ \A n \in g.nodes : IsDecorated(g.node[n])
          /\ \A n \in NodesOf(gDi) : IsDecorated(gDiNode[n])
    /\ (pc # "start" /\ ReferencedStations \ NamedStations # {}) => pc = "error"

\* a query that is neither a node of g nor the name of a node of g
ResolvesToNothing(s) ==
    s \notin g.nodes /\ \A n \in g.nodes : g.node[n].name # s

\* C12: when s0 or s1 of a call of get_paths resolves to zero station codes,
\* the call ends in an error and not in the empty list that two existing
\* stations with no simple path between them give.
C12_NoSuchStationSurfaced ==
    (pc # "built" /\ query # <<>>
        /\ (ResolvesToNothing(query[1]) \/ ResolvesToNothing(query[2]))) =>
        /\ pc = "error"
        /\ paths # {}

\* get_paths returned the empty list for two stations of the graph
C12_ValidEmptyResult ==
    /\ pc = "paths"
    /\ paths = {}
    /\ query[1] \in g.nodes
    /\ query[2] \in g.nodes
    /\ query[1] # query[2]

----------------------------------------------------------------------------
(* Properties of the candidate leg ends of path_to_straightshots *)

\* the edges of the first hop of the current call
FirstHopEdges ==
    HopEdges(Subgraph(gDi, remainingPath), remainingPath[1], remainingPath[2])

\* the current call reaches the search for the leg end: its first hop has
\* edges, none of them a transfer, all of one direction number
FirstHopIsRide ==
    /\ pc = "segment"
    /\ Len(remainingPath) >= 2
    /\ FirstHopEdges # {}
    /\ \A e \in FirstHopEdges : ~e.station_transfer
    /\ Cardinality(DirectionNums(FirstHopEdges)) = 1

\* the keys of reachable that the current call keeps
CandidateLegEnds ==
    Reachable(Subgraph(gDi, remainingPath),
              CHOOSE d \in DirectionNums(FirstHopEdges) : TRUE,
              LineCodes(FirstHopEdges))

\* C14: whenever the first hop a -> b of a call has no transfer edge and a
\* single direction number, the candidate leg ends contain b, so they are not
\* empty and the furthest of them is at path position 1 or later, whatever
\* the line codes of the hop, YLRP alone included.
C14_FirstHopEndIsCandidate ==
    FirstHopIsRide =>
        /\ remainingPath[2] \in CandidateLegEnds
        /\ CandidateLegEnds # {}
        /\ Index(remainingPath, Furthest(CandidateLegEnds, remainingPath)) >= 2

\* the same for a first hop that carries a line code other than YLRP
C14_NamedLineHopEndIsCandidate ==
    (FirstHopIsRide /\ LineCodes(FirstHopEdges) # {}) =>
        /\ remainingPath[2] \in CandidateLegEnds
        /\ Index(remainingPath, Furthest(CandidateLegEnds, remainingPath)) >= 2

----------------------------------------------------------------------------
(* Properties of path_to_straightshots under its cache *)

\* a call that raised returns no value
Failed == [ok |-> FALSE, value |-> <<>>]

\* the legs of a call prepended to what the call below it returned
PrependLeg(leg, rest) ==
    IF rest.ok THEN [ok |-> TRUE, value |-> PrependLegs(<<leg>>, rest.value)] ELSE Failed

RECURSIVE Uncached(_, _, _)
\* path_to_straightshots.__wrapped__(graph, p), every recursive call
\* uncached as well, given up after depth calls
Uncached(graph, p, depth) ==
    IF Len(p) = 1 THEN [ok |-> TRUE, value |-> << <<>> >>]
    ELSE IF Len(p) = 0 \/ depth = 0 THEN Failed
    ELSE
      LET sub == Subgraph(graph, p)
          edges == HopEdges(sub, p[1], p[2])
          d == CHOOSE x \in DirectionNums(edges) : TRUE
          reachable == Reachable(sub, d, LineCodes(edges))
      IN  IF edges = {} THEN Failed
          ELSE IF \E e \in edges : e.station_transfer
          THEN PrependLeg(Leg(p[1], p[2], Null, TRUE),
                          Uncached(graph, SubSeq(p, 2, Len(p)), depth - 1))
          ELSE IF Cardinality(DirectionNums(edges)) > 1 \/ reachable = {} THEN Failed
          ELSE PrependLeg(Leg(p[1], Furthest(reachable, p), d, FALSE),
                          Uncached(graph,
                                   SubSeq(p, Index(p, Furthest(reachable, p)), Len(p)),
                                   depth - 1))

\* the fresh computation of the whole path of the current call
FreshResult == Uncached(gDi, path, RecursionLimit + 1)

\* the current call returned a value that the cache held for a suffix of its
\* path, filed there by an earlier call on another path
ReturnedFromCachedSuffix ==
    /\ pc = "done"
    /\ Len(legs) >= 1
    /\ Len(remainingPath) >= 2

\* the current call returned the value the cache held for its whole path
ReturnedFromCache ==
    /\ pc = "done"
    /\ legs = <<>>
    /\ Len(remainingPath) >= 2

\* C13: under the cache, whatever calls came before and in whatever order,
\* a call of path_to_straightshots returns what the uncached computation of
\* its path returns and raises when that raises; every value the cache holds
\* is the uncached result of its key, so a repeated call returns the same.
C13_CachedEqualsUncached ==
    /\ pc = "done" => FreshResult.ok /\ straightshots = FreshResult.value
    /\ (pc = "error" /\ path # <<>>) => ~FreshResult.ok
    /\ \A c \in cache :
          LET fresh == Uncached(gDi, c.key, RecursionLimit + 1)
          IN  fresh.ok /\ c.value = fresh.value
    /\ ReturnedFromCache => straightshots = Cached(path)

\* a call on a path of several legs ended on a cached suffix, itself a path
\* of the get_paths result that an earlier call had segmented
C13_Witness ==
    /\ ReturnedFromCachedSuffix
    /\ Len(straightshots[1]) >= 2
    /\ remainingPath \in paths

\* a recursive call: the call on the stack top made the next one
RecursiveCall == pc = "segment" /\ pc' = "segment"

\* C15: every recursive call of path_to_straightshots is made on a strictly
\* shorter suffix of the path of the call that makes it, so the recursion
\* never meets the same path again and never runs into the recursion limit.
C15_RecursesOnShorterSuffix ==
    [][/\ RecursiveCall =>
             /\ Len(remainingPath') < Len(remainingPath)
             /\ remainingPath' =
                   SubSeq(remainingPath,
                          Len(remainingPath) - Len(remainingPath') + 1,
                          Len(remainingPath))
       /\ err'.kind # "RecursionError"]_vars

\* the same for the recursive calls made from a first hop that carries a
\* transfer edge or a line code other than YLRP
C15_NamedLineRecursesOnShorterSuffix ==
    [][(RecursiveCall /\ (\E e \in FirstHopEdges : e.station_transfer
                            \/ LineCodes(FirstHopEdges) # {})) =>
           Len(remainingPath') < Len(remainingPath)]_vars

====
